---------------------------- MODULE Spec2Model ----------------------------
(***************************************************************************)
(* A model of fix_include_statements.py: the scan of a source tree for     *)
(* include directives (crawl_codebase), the case-insensitive inventory of  *)
(* file names (list_all_files), the resolver and the interactive fix loop  *)
(* (check_codebase), and the confirmation of the entry point (__main__).   *)
(*                                                                         *)
(* Text is a sequence of one-character strings, so that lower(), split()   *)
(* and replace() are computed character by character.  A file's content is *)
(* the sequence of its include directives; a directive keeps the white     *)
(* space after "#include", its two delimiters and its value, so that the   *)
(* regular expression of the scan and the literal text of the substitution *)
(* are two different tests of it.                                          *)
(***************************************************************************)
EXTENDS Integers, Sequences, FiniteSets, TLC

(***************************************************************************)
(* Bounds of the model.                                                    *)
(***************************************************************************)
\* The number of include directives in the whole tree.
MaxIncludes == 2

(***************************************************************************)
(* Text.                                                                   *)
(***************************************************************************)
\* Python's None, as it stands in 'actual_filenames' and 'actual_paths'.
None == <<"None">>

\* The upper-case letters of the model's alphabet and their lower-case forms.
UpperCase == <<"A", "B", "E", "H", "S", "X", "Y">>
LowerCase == <<"a", "b", "e", "h", "s", "x", "y">>

\* str.lower() of one character.
LowerChar(c) ==
    IF \E k \in DOMAIN UpperCase : UpperCase[k] = c
    THEN LowerCase[CHOOSE k \in DOMAIN UpperCase : UpperCase[k] = c]
    ELSE c

\* str.lower()
Lower(str) == [i \in DOMAIN str |-> LowerChar(str[i])]

\* str.replace('\\', '/')
ReplaceBackslashes(str) == [i \in DOMAIN str |-> IF str[i] = "\\" THEN "/" ELSE str[i]]

\* '\\' in str
HasBackslash(str) == \E i \in DOMAIN str : str[i] = "\\"

\* str.split('/')[-1]
LastSplit(str) ==
    LET seps == {i \in DOMAIN str : str[i] = "/"}
    IN  IF seps = {} THEN str
        ELSE LET last == CHOOSE i \in seps : \A k \in seps : k <= i
             IN  SubSeq(str, last + 1, Len(str))

\* include_statement_value.replace('\\', '/').split('/')[-1]
Basename(value) == LastSplit(ReplaceBackslashes(value))

\* str.startswith(prefix) at offset i (1-based)
MatchesAt(str, i, old) ==
    /\ i + Len(old) - 1 <= Len(str)
    /\ \A k \in 1..Len(old) : str[i + k - 1] = old[k]

\* str.endswith(suffix)
EndsWith(str, suffix) ==
    /\ Len(suffix) <= Len(str)
    /\ MatchesAt(str, Len(str) - Len(suffix) + 1, suffix)

RECURSIVE ReplaceFrom(_, _, _, _)
\* str.replace(old, new) from offset i on: every occurrence of old, left to
\* right, without overlap.  old is never empty where the program calls it.
ReplaceFrom(str, i, old, new) ==
    IF i > Len(str) THEN <<>>
    ELSE IF Len(old) > 0 /\ MatchesAt(str, i, old)
         THEN new \o ReplaceFrom(str, i + Len(old), old, new)
         ELSE <<str[i]>> \o ReplaceFrom(str, i + 1, old, new)

\* str.replace(old, new)
StrReplace(str, old, new) == ReplaceFrom(str, 1, old, new)

(***************************************************************************)
(* Numbers as the operator types them: str() and int().                    *)
(***************************************************************************)
Digits == <<"0", "1", "2", "3", "4", "5", "6", "7", "8", "9">>

IsDigit(c) == \E d \in DOMAIN Digits : Digits[d] = c

DigitValue(c) == (CHOOSE d \in DOMAIN Digits : Digits[d] = c) - 1

RECURSIVE PyStrNat(_)
PyStrNat(n) ==
    IF n < 10 THEN <<Digits[n + 1]>> ELSE PyStrNat(n \div 10) \o <<Digits[(n % 10) + 1]>>

\* str(n)
PyStr(n) == IF n < 0 THEN <<"-">> \o PyStrNat(0 - n) ELSE PyStrNat(n)

\* str.strip() of blanks.
RECURSIVE Strip(_)
Strip(str) ==
    IF str = <<>> THEN str
    ELSE IF Head(str) = " " THEN Strip(Tail(str))
    ELSE IF str[Len(str)] = " " THEN Strip(SubSeq(str, 1, Len(str) - 1))
    ELSE str

RECURSIVE DigitsValue(_)
DigitsValue(ds) ==
    IF ds = <<>> THEN 0
    ELSE 10 * DigitsValue(SubSeq(ds, 1, Len(ds) - 1)) + DigitValue(ds[Len(ds)])

\* int(str): [ok |-> FALSE] stands for ValueError.
PyInt(str) ==
    LET t      == Strip(str)
        signed == t # <<>> /\ Head(t) \in {"-", "+"}
        ds     == IF signed THEN Tail(t) ELSE t
    IN  IF ds # <<>> /\ \A i \in DOMAIN ds : IsDigit(ds[i])
        THEN [ok |-> TRUE, val |-> IF signed /\ Head(t) = "-" THEN 0 - DigitsValue(ds)
                                   ELSE DigitsValue(ds)]
        ELSE [ok |-> FALSE, val |-> 0]

\* list[index] succeeds: Python counts a negative index from the end.
PyIndexOk(list, index) == 0 - Len(list) <= index /\ index < Len(list)

\* list[index] of a 0-based Python list, for an index PyIndexOk accepts.
PyIndex(list, index) == IF index >= 0 THEN list[index + 1] ELSE list[Len(list) + index + 1]

(***************************************************************************)
(* The tree.  A file is [dir, name, content]; the tree is the sequence of  *)
(* its files in the order os.walk yields them.                             *)
(***************************************************************************)
\* The extensions of line 72 and line 102.
Extensions == {<<".", "h">>, <<".", "h", "p", "p">>, <<".", "c">>, <<".", "c", "p", "p">>}

\* filename.endswith(('.h', '.hpp', '.c', '.cpp'))
HasExtension(filename) == \E ext \in Extensions : EndsWith(filename, ext)

\* os.path.relpath(os.path.join(root, filename), start=root_dir).replace('\\', '/')
RelativePath(file) ==
    ReplaceBackslashes(IF file.dir = <<>> THEN file.name
                       ELSE file.dir \o <<"/">> \o file.name)

\* The text of one directive, as it stands in the file.
DirectiveText(d) == <<"#include">> \o d.space \o <<d.open>> \o d.value \o <<d.close>>

\* re.compile(r'#include\s*["<](.*?)[">]') matches the directive and captures
\* its whole value: the value holds no closing delimiter.
IncludePattern(d) ==
    /\ \A i \in DOMAIN d.space : d.space[i] \in {" ", "\t"}
    /\ d.open \in {"\"", "<"}
    /\ d.close \in {"\"", ">"}
    /\ \A i \in DOMAIN d.value : d.value[i] \notin {"\"", ">"}

\* include_pattern.findall(content)
FindAll(content) ==
    LET hits == SelectSeq(content, IncludePattern)
    IN  [i \in DOMAIN hits |-> hits[i].value]

\* Every file with a recognized extension, in walk order.
SourceFiles(tree) == SelectSeq(tree, LAMBDA file : HasExtension(file.name))

\* crawl_codebase: the files that hold includes, each with its list of
\* include values, in walk order.
crawl_codebase(tree) ==
    LET scanned == SourceFiles(tree)
        found   == SelectSeq(scanned, LAMBDA file : FindAll(file.content) # <<>>)
    IN  [i \in DOMAIN found |->
            [path |-> RelativePath(found[i]), include_list |-> FindAll(found[i].content)]]

\* list_all_files, read at one key: filename_dict[lower_filename], the
\* (filename, relative_path) pairs in first-seen order; <<>> when the key is
\* not in the dictionary.
list_all_files(tree, lower_filename) ==
    LET same == SelectSeq(SourceFiles(tree), LAMBDA file : Lower(file.name) = lower_filename)
    IN  [i \in DOMAIN same |-> [filename |-> same[i].name, path |-> RelativePath(same[i])]]

(***************************************************************************)
(* The resolver (lines 133-237).                                           *)
(***************************************************************************)
\* The entry recorded when only the backslashes are wrong.
BackslashOnly == <<[filename |-> None, path |-> None]>>

\* Lines 147-160, 184-196, 223-235: "still check for backslashes".
CheckBackslashes(value) == IF HasBackslash(value) THEN BackslashOnly ELSE <<>>

\* The resolver without the test of line 208: several matches are always
\* recorded.
ResolveWithoutExactTest(tree, value) ==
    LET matches == list_all_files(tree, Lower(Basename(value)))
    IN  IF matches = <<>> THEN CheckBackslashes(value)
        ELSE IF Len(matches) = 1
             THEN IF matches[1].filename # Basename(value) THEN matches
                  ELSE CheckBackslashes(value)
             ELSE matches

\* One include value against the inventory: the candidates recorded for it
\* (actual filename and actual path of each), <<>> when nothing is recorded.
Resolve(tree, value) ==
    LET matches == list_all_files(tree, Lower(Basename(value)))
    IN  IF matches = <<>> THEN CheckBackslashes(value)
        ELSE IF Len(matches) = 1
             THEN IF matches[1].filename # Basename(value) THEN matches
                  ELSE CheckBackslashes(value)
             ELSE IF ~ \E i \in DOMAIN matches : matches[i].filename = Basename(value)
                  THEN matches
                  ELSE CheckBackslashes(value)

\* results[path]: the values of one file that are recorded, each once, in
\* the order of their first occurrence.
RecordedValues(tree, include_list) ==
    LET keep(i) == /\ Resolve(tree, include_list[i]) # <<>>
                   /\ \A k \in 1..(i - 1) : include_list[k] # include_list[i]
        RECURSIVE From(_)
        From(i) == IF i > Len(include_list) THEN <<>>
                   ELSE IF keep(i) THEN <<include_list[i]>> \o From(i + 1)
                   ELSE From(i + 1)
    IN  From(1)

RECURSIVE Flatten(_, _)
\* The (path, value) pairs of results in the order the fix loop visits them.
Flatten(tree, include_dict) ==
    IF include_dict = <<>> THEN <<>>
    ELSE LET first  == Head(include_dict)
             values == RecordedValues(tree, first.include_list)
         IN  [i \in DOMAIN values |->
                 [path |-> first.path, value |-> values[i],
                  actual |-> Resolve(tree, values[i])]]
             \o Flatten(tree, Tail(include_dict))

\* Lines 126-237: the inconsistencies of the tree.
Analyze(tree) == Flatten(tree, crawl_codebase(tree))

\* The corrected value without the last replace('\\', '/') of line 274.
CorrectValueKeepsBackslashes(value, actual_filename) ==
    IF actual_filename = None THEN ReplaceBackslashes(value)
    ELSE StrReplace(value, Basename(value), actual_filename)

\* Lines 264-275: the corrected value for one candidate.
CorrectValue(value, actual_filename) ==
    IF actual_filename = None THEN ReplaceBackslashes(value)
    ELSE ReplaceBackslashes(StrReplace(value, Basename(value), actual_filename))

\* Lines 260-276: correct_include_statement_values
CorrectValues(item) ==
    [j \in DOMAIN item.actual |-> CorrectValue(item.value, item.actual[j].filename)]

(***************************************************************************)
(* The fix of one inconsistency (lines 280-333).                           *)
(***************************************************************************)
\* The test of line 280 left out.
InteractiveAlways(dry) == TRUE

\* Line 280: the loop body goes on to the prompt.
Interactive(dry) == ~ dry

\* The operator's text taken also under automatic.
ChosenNrTyped(auto, typed) == IF typed = <<>> THEN <<"1">> ELSE typed

\* Lines 281-286: chosen_nr before it is compared with the menu.
ChosenNr(auto, typed) ==
    LET chosen_nr == IF ~ auto THEN typed ELSE <<"1">>
    IN  IF chosen_nr = <<>> THEN <<"1">> ELSE chosen_nr

\* Lines 287-313: what the choice means for a menu of these values.  j is
\* the last index of the candidates' loop, as line 261 leaves it.
Decide(values, chosen_nr) ==
    LET j       == Len(values) - 1
        fix_all == chosen_nr = PyStr(j + 3)
        chosen  == IF fix_all THEN <<"1">> ELSE chosen_nr
        number  == PyInt(chosen)
    IN  IF chosen_nr = PyStr(j + 2)
        THEN [kind |-> "skip", automatic |-> FALSE, choice |-> 0]
        ELSE IF chosen = PyStr(j + 4)
        THEN [kind |-> "quit", automatic |-> fix_all, choice |-> 0]
        ELSE IF ~ number.ok
        THEN [kind |-> "invalid", automatic |-> fix_all, choice |-> 0]
        ELSE IF ~ PyIndexOk(values, number.val - 1)
        THEN [kind |-> "invalid", automatic |-> fix_all, choice |-> 0]
        ELSE [kind |-> "apply", automatic |-> fix_all, choice |-> number.val]

\* f'#include \"{value}\"'
Quoted(value) == [space |-> <<" ">>, open |-> "\"", close |-> "\"", value |-> value]

\* f'#include <{value}>'
Angled(value) == [space |-> <<" ">>, open |-> "<", close |-> ">", value |-> value]

\* A replacement that looks for the value and not for the directive's text.
ContentReplaceByValue(content, old, new) ==
    [i \in DOMAIN content |-> IF content[i].value = old.value THEN new ELSE content[i]]

\* old_content.replace(old, new), old and new each the text of a directive.
ContentReplace(content, old, new) ==
    [i \in DOMAIN content |->
        IF DirectiveText(content[i]) = DirectiveText(old) THEN new ELSE content[i]]

\* The substitution without its second try, the one with '<' and '>'.
SubstituteQuotedOnly(old_content, value, correct) ==
    ContentReplace(old_content, Quoted(value), Quoted(correct))

\* Lines 316-322: new_content; it equals old_content when neither form of
\* the directive stands in the file.
Substitute(old_content, value, correct) ==
    LET new_content == ContentReplace(old_content, Quoted(value), Quoted(correct))
    IN  IF new_content = old_content
        THEN ContentReplace(old_content, Angled(value), Angled(correct))
        ELSE new_content

\* The index in the tree of the file open(os.path.join(root_dir, path)) opens.
FileAt(t, path) == CHOOSE i \in DOMAIN t : RelativePath(t[i]) = path

(***************************************************************************)
(* The program.                                                            *)
(***************************************************************************)
VARIABLES
    dry_run,     \* args.dry_run
    tree,        \* the files on disk
    pc,          \* "main", "loop" (the loop of line 251), "exited"
    results,     \* results, flattened to the (path, value) pairs the loop visits
    pos,         \* the pair the loop is at
    s, g, e,     \* the counters Skipped, Fixed, Errors
    automatic,   \* the flag of line 250
    exit_code,   \* the argument of sys.exit, -1 while the process runs
    summary,     \* lines 338-342 have printed
    reads,       \* the number of calls of input()
    writes,      \* the log of the writes of line 328: the pair and the path
    last,        \* what the loop body did with the pair before pos
    auto_at,     \* the pair at which automatic was set, 0 while it is not
    tree0        \* the tree at the start

vars == <<dry_run, tree, pc, results, pos, s, g, e, automatic, exit_code, summary,
          reads, writes, last, auto_at, tree0>>

\* Nothing done yet.
NoStep == [input |-> <<>>, prompted |-> FALSE, kind |-> "none", choice |-> 0]

\* The include values of the trees.
Values ==
    { <<"x", ".", "h">>,
      <<"X", ".", "H">>,
      <<"d", "\\", "x", ".", "h">>,
      <<"x", ".", "h", "/", "x", ".", "h">> }

\* The ways a directive is written: '#include "v"', '#include <v>',
\* '#include  "v"' and '#include "v>'.
Forms ==
    { [space |-> <<" ">>, open |-> "\"", close |-> "\""],
      [space |-> <<" ">>, open |-> "<", close |-> ">"],
      [space |-> <<" ", " ">>, open |-> "\"", close |-> "\""],
      [space |-> <<" ">>, open |-> "\"", close |-> ">"] }

\* '#include "v>' and the like for the value x.h, the first of Values.
Plain == <<"x", ".", "h">>

\* The directives of the trees: every value written '#include "v"', and the
\* value x.h written in every form.
Directives ==
    { [space |-> <<" ">>, open |-> "\"", close |-> "\"", value |-> v] : v \in Values }
    \cup { [space |-> f.space, open |-> f.open, close |-> f.close, value |-> Plain] :
              f \in Forms }

Header(dir, name) == [dir |-> dir, name |-> name, content |-> <<>>]

\* The headers of the trees, in walk order: none, A/X.h, B/x.h, both in the
\* two orders, and A/X.H, whose extension is not a recognized one.
Headers ==
    { <<>>,
      <<Header(<<"A">>, <<"X", ".", "h">>)>>,
      <<Header(<<"B">>, <<"x", ".", "h">>)>>,
      <<Header(<<"A">>, <<"X", ".", "h">>), Header(<<"B">>, <<"x", ".", "h">>)>>,
      <<Header(<<"B">>, <<"x", ".", "h">>), Header(<<"A">>, <<"X", ".", "h">>)>>,
      <<Header(<<"A">>, <<"X", ".", "H">>)>> }

\* The two source files of the root, m.c and n.c.
SourceNames == << <<"m", ".", "c">>, <<"n", ".", "c">> >>

\* Where the directives of a tree go: each in one of the source files.
Plans ==
    UNION { [1..n -> (DOMAIN SourceNames) \X Directives] : n \in 0..MaxIncludes }

\* The content of source file k under a plan.
PlannedContent(plan, k) ==
    LET mine == SelectSeq(plan, LAMBDA slot : slot[1] = k)
    IN  [i \in DOMAIN mine |-> mine[i][2]]

\* os.walk yields the files of the root before those of its directories.
PlannedTree(plan, headers) ==
    [k \in DOMAIN SourceNames |->
        [dir |-> <<>>, name |-> SourceNames[k], content |-> PlannedContent(plan, k)]]
    \o headers

\* What the operator may type at the confirmation of line 387.
Responses == { <<"y", "e", "s">>, <<"Y", "E", "S">>, <<"n", "o">>, <<>> }

\* What the operator may type at the menu of an inconsistency with m
\* candidates: nothing, a word, the numbers around the menu's, a menu number
\* with a leading zero and one with a leading blank.
Inputs(m) ==
    { <<>>, <<"x">>, <<"0">> \o PyStr(m + 2), <<" ", "1">> }
    \cup { PyStr(n) : n \in (0 - m - 1)..(m + 4) }

Init ==
    /\ dry_run \in BOOLEAN
    /\ \E plan \in Plans, headers \in Headers : tree = PlannedTree(plan, headers)
    /\ tree0 = tree
    /\ pc = "main"
    /\ results = <<>>
    /\ pos = 1
    /\ s = 0 /\ g = 0 /\ e = 0
    /\ automatic = FALSE
    /\ exit_code = -1
    /\ summary = FALSE
    /\ reads = 0
    /\ writes = <<>>
    /\ last = NoStep
    /\ auto_at = 0

\* Lines 126-250: check_codebase up to its loop.
EnterCheck ==
    /\ results' = Analyze(tree)
    /\ pos' = 1
    /\ s' = 0 /\ g' = 0 /\ e' = 0
    /\ automatic' = FALSE
    /\ pc' = "loop"

\* Lines 376, 397 with --dry-run: no confirmation is asked.
MainDryRun ==
    /\ pc = "main"
    /\ dry_run
    /\ EnterCheck
    /\ UNCHANGED <<dry_run, tree, exit_code, summary, reads, writes, last, auto_at, tree0>>

\* Lines 376-397 without --dry-run: the operator confirms with 'yes', and
\* anything else shows the help and exits with status 0.
MainConfirm(response) ==
    /\ pc = "main"
    /\ ~ dry_run
    /\ reads' = reads + 1
    /\ IF Lower(response) = <<"y", "e", "s">>
       THEN /\ EnterCheck
            /\ UNCHANGED exit_code
       ELSE /\ pc' = "exited"
            /\ exit_code' = 0
            /\ UNCHANGED <<results, pos, s, g, e, automatic>>
    /\ UNCHANGED <<dry_run, tree, summary, writes, last, auto_at, tree0>>

\* Lines 254-279, 334-335 with --dry-run: the inconsistency is printed.
ShowInconsistency ==
    /\ pc = "loop"
    /\ pos <= Len(results)
    /\ ~ Interactive(dry_run)
    /\ pos' = pos + 1
    /\ last' = [input |-> <<>>, prompted |-> FALSE, kind |-> "shown", choice |-> 0]
    /\ UNCHANGED <<dry_run, tree, pc, results, s, g, e, automatic, exit_code, summary,
                   reads, writes, auto_at, tree0>>

\* Lines 288-291, 303-306 and 310-313: "Skipped.", s += 1, continue.
Skipped ==
    /\ s' = s + 1
    /\ pos' = pos + 1
    /\ UNCHANGED <<pc, g, e, tree, writes, exit_code, summary>>

\* A break out of the loop in the place of sys.exit(0).
QuitBreaksLoop ==
    /\ pos' = Len(results) + 1
    /\ UNCHANGED <<pc, exit_code, s, g, e, tree, writes, summary>>

\* Line 299: sys.exit(0)
Quit ==
    /\ pc' = "exited"
    /\ exit_code' = 0
    /\ UNCHANGED <<pos, s, g, e, tree, writes, summary>>

\* Lines 323-326: "Unable to correct include statement.", e += 1, continue.
Unable ==
    /\ e' = e + 1
    /\ pos' = pos + 1
    /\ UNCHANGED <<pc, s, g, tree, writes, exit_code, summary>>

\* The write without g += 1.
WriteFixedUncounted(path, new_content) ==
    /\ tree' = [tree EXCEPT ![FileAt(tree, path)].content = new_content]
    /\ writes' = Append(writes, [pos |-> pos, path |-> path])
    /\ pos' = pos + 1
    /\ UNCHANGED <<pc, s, g, e, exit_code, summary>>

\* Lines 327-333: the file is written and the fix is counted.
WriteFixed(path, new_content) ==
    /\ tree' = [tree EXCEPT ![FileAt(tree, path)].content = new_content]
    /\ writes' = Append(writes, [pos |-> pos, path |-> path])
    /\ g' = g + 1
    /\ pos' = pos + 1
    /\ UNCHANGED <<pc, s, e, exit_code, summary>>

\* Lines 254-335 without --dry-run: the inconsistency is printed, the choice
\* is read (or taken as '1' under automatic) and carried out.
FixInconsistency(typed) ==
    /\ pc = "loop"
    /\ pos <= Len(results)
    /\ Interactive(dry_run)
    /\ LET item        == results[pos]
           values      == CorrectValues(item)
           chosen_nr   == ChosenNr(automatic, typed)
           decision    == Decide(values, chosen_nr)
           old_content == tree[FileAt(tree, item.path)].content
           correct     == PyIndex(values, decision.choice - 1)
           new_content == Substitute(old_content, item.value, correct)
           outcome     == IF decision.kind # "apply" THEN decision.kind
                          ELSE IF new_content = old_content THEN "error"
                          ELSE "fixed"
       IN  /\ reads' = IF ~ automatic THEN reads + 1 ELSE reads
           /\ automatic' = (automatic \/ decision.automatic)
           /\ auto_at' = IF ~ automatic /\ decision.automatic THEN pos ELSE auto_at
           /\ last' = [input |-> IF ~ automatic THEN typed ELSE <<>>,
                       prompted |-> ~ automatic,
                       kind |-> outcome, choice |-> decision.choice]
           /\ CASE outcome \in {"skip", "invalid"} -> Skipped
                [] outcome = "quit"  -> Quit
                [] outcome = "error" -> Unable
                [] outcome = "fixed" -> WriteFixed(item.path, new_content)
    /\ UNCHANGED <<dry_run, results, tree0>>

\* Lines 338-343 and 398: the summary, then sys.exit(0).
Summary ==
    /\ pc = "loop"
    /\ pos > Len(results)
    /\ summary' = TRUE
    /\ pc' = "exited"
    /\ exit_code' = 0
    /\ UNCHANGED <<dry_run, tree, results, pos, s, g, e, automatic, reads, writes, last,
                   auto_at, tree0>>

Next ==
    \/ MainDryRun
    \/ \E response \in Responses : MainConfirm(response)
    \/ ShowInconsistency
    \/ \E typed \in Inputs(IF pos \in DOMAIN results THEN Len(results[pos].actual) ELSE 1) :
          FixInconsistency(typed)
    \/ Summary

Spec == Init /\ [][Next]_vars


(***************************************************************************)
(* The properties.                                                         *)
(***************************************************************************)
\* The loop body is about to fix (not only show) the pair at pos.
FixStep == pc = "loop" /\ ~ dry_run /\ pos \in DOMAIN results

\* The number of candidates of the pair at pos.
Candidates == Len(results[pos].actual)

\* A directive of the content is the literal text of '#include "value"' or
\* of '#include <value>'.
HoldsLiteral(content, value) ==
    \E i \in DOMAIN content :
        DirectiveText(content[i]) \in {DirectiveText(Quoted(value)), DirectiveText(Angled(value))}

\* C1: in dry-run mode no input is ever read, no file is ever written, the
\* three counters stay 0 and every file keeps the content it had.
C1_DryRunChangesNothing ==
    dry_run => /\ reads = 0
               /\ writes = <<>>
               /\ s = 0 /\ g = 0 /\ e = 0
               /\ tree = tree0

\* A dry run that showed two inconsistencies and printed its summary.
C1_Witness ==
    /\ dry_run
    /\ pc = "exited" /\ summary
    /\ Len(results) >= 2
    /\ last.kind = "shown"

\* C2: automatic starts false, never goes back to false, becomes true exactly
\* on the step at which the operator types the number of 'Fix all'; that
\* pair and every pair after it are resolved with candidate 1, and after it
\* no input is read.
C2_AutomaticIsOneWayLatch ==
    [][ /\ (pc = "main" => ~ automatic)
        /\ (automatic => automatic')
        /\ (~ FixStep => automatic' = automatic)
        /\ (FixStep =>
              ((~ automatic /\ automatic') <=>
               (~ automatic /\ last'.input = PyStr(Candidates + 2))))
        /\ (FixStep /\ automatic' =>
              /\ last'.choice = 1
              /\ last'.kind \in {"fixed", "error"}
              /\ pos' = pos + 1
              /\ (last'.kind = "fixed" =>
                    LET at == FileAt(tree, results[pos].path)
                    IN  tree'[at].content =
                          Substitute(tree[at].content, results[pos].value,
                                     CorrectValues(results[pos])[1])))
        /\ (FixStep /\ automatic => ~ last'.prompted /\ reads' = reads)
      ]_vars

\* 'Fix all' was typed at the first pair, and the second pair, which is in
\* another file, was fixed without a prompt.
C2_Witness ==
    /\ automatic
    /\ auto_at = 1
    /\ pos = 3
    /\ results[2].path # results[1].path
    /\ ~ last.prompted
    /\ last.kind = "fixed"
    /\ reads = 2

\* What the operator typed is not empty and is no number of the menu of m
\* candidates: it is no number at all, or a number outside 1..m+3.
Malformed(text, m) ==
    /\ text # <<>>
    /\ \/ ~ PyInt(text).ok
       \/ PyInt(text).val \notin 1..(m + 3)

\* C3: an input that is no number, or a number outside 1..m+3 (0 and the
\* negative numbers among them), skips the pair: the file is not modified,
\* Skipped grows by 1, Fixed and Errors stay, and the loop goes on.
C3_MalformedInputIsSkipped ==
    [][ (FixStep /\ ~ automatic /\ Malformed(last'.input, Candidates)) =>
          /\ tree' = tree
          /\ s' = s + 1 /\ g' = g /\ e' = e
          /\ pos' = pos + 1
          /\ pc' = "loop"
      ]_vars

\* C4: when a candidate is chosen and the file holds neither the literal
\* '#include "V"' nor the literal '#include <V>', Errors grows by 1, Fixed
\* and Skipped stay, the file is not written and the loop goes on.
C4_MissingLiteralIsAnError ==
    [][ ( /\ FixStep
          /\ last'.kind \in {"fixed", "error"}
          /\ ~ HoldsLiteral(tree[FileAt(tree, results[pos].path)].content, results[pos].value) )
        => /\ e' = e + 1 /\ g' = g /\ s' = s
           /\ tree' = tree
           /\ writes' = writes
           /\ pos' = pos + 1
           /\ pc' = "loop"
      ]_vars

\* A candidate was chosen for a directive written '#include  "x.h"' or
\* '#include "x.h>', and it was counted as an error.
C4_Witness ==
    /\ pc = "loop"
    /\ pos = 2
    /\ last.kind = "error"
    /\ last.choice = 1
    /\ e = 1
    /\ tree = tree0
    /\ ~ HoldsLiteral(tree[FileAt(tree, results[1].path)].content, results[1].value)

\* The run went through in automatic mode: it printed its summary, and
\* 'Fix all' was typed at the first pair if there was one.
AutomaticRunDone ==
    /\ pc = "exited"
    /\ summary
    /\ ~ dry_run
    /\ (results = <<>> \/ auto_at = 1)

\* C5 as claimed: after a run in automatic mode, for every tree, a second
\* run records no inconsistency.
C5_SecondRunFindsNothing == AutomaticRunDone => Analyze(tree) = <<>>

\* Every directive of the tree whose value the resolver records is written
\* literally, '#include "V"' or '#include <V>', and its file writes that
\* value in one way only.
Fixable(t) ==
    \A k \in DOMAIN t :
        HasExtension(t[k].name) =>
            \A i \in DOMAIN t[k].content :
                LET d == t[k].content[i]
                IN  (IncludePattern(d) /\ Resolve(t, d.value) # <<>>) =>
                        /\ DirectiveText(d) \in {DirectiveText(Quoted(d.value)),
                                                 DirectiveText(Angled(d.value))}
                        /\ \A n \in DOMAIN t[k].content :
                              (IncludePattern(t[k].content[n])
                               /\ t[k].content[n].value = d.value)
                              => DirectiveText(t[k].content[n]) = DirectiveText(d)

\* C5 as amended: after a run in automatic mode over a tree whose recorded
\* directives are all written literally and in one way per file and value,
\* a second run records no inconsistency.
C5_SecondRunFindsNothingWhenFixable ==
    (AutomaticRunDone /\ Fixable(tree0)) => Analyze(tree) = <<>>

\* An automatic run that fixed two inconsistencies, one of them written with
\* angle brackets.
C5_Witness ==
    /\ AutomaticRunDone
    /\ Fixable(tree0)
    /\ Len(results) = 2
    /\ g = 2
    /\ \E k \in DOMAIN tree0 : \E i \in DOMAIN tree0[k].content :
          tree0[k].content[i].open = "<"

\* C6: an include value whose basename has one inventory entry, which
\* differs from it only in case, is recorded once for its file, with one
\* candidate; the candidate ends in the actual filename and holds no
\* backslash.
C6_SingleCaseMismatch ==
    pc = "loop" =>
        LET include_dict == crawl_codebase(tree0)
        IN  \A k \in DOMAIN include_dict :
              \A n \in DOMAIN include_dict[k].include_list :
                LET value   == include_dict[k].include_list[n]
                    matches == list_all_files(tree0, Lower(Basename(value)))
                    hits    == {i \in DOMAIN results :
                                  /\ results[i].path = include_dict[k].path
                                  /\ results[i].value = value}
                IN  ( /\ Len(matches) = 1
                      /\ matches[1].filename # Basename(value)
                      /\ Lower(matches[1].filename) = Lower(Basename(value)) )
                    => /\ Cardinality(hits) = 1
                       /\ \A i \in hits :
                            /\ Len(results[i].actual) = 1
                            /\ Len(CorrectValues(results[i])) = 1
                            /\ Basename(CorrectValues(results[i])[1]) = matches[1].filename
                            /\ ~ HasBackslash(CorrectValues(results[i])[1])

\* 'd\x.h' with A/X.h the only x.h of the tree: one candidate, 'd/X.h'.
C6_Witness ==
    /\ pc = "loop"
    /\ \E i \in DOMAIN results :
          /\ results[i].value = <<"d", "\\", "x", ".", "h">>
          /\ Len(results[i].actual) = 1
          /\ results[i].actual[1].filename = <<"X", ".", "h">>
          /\ CorrectValues(results[i]) = << <<"d", "/", "X", ".", "h">> >>

\* The tree holds A/X.h and B/x.h.
BothHeaders(t) ==
    /\ \E k \in DOMAIN t : RelativePath(t[k]) = <<"A", "/", "X", ".", "h">>
    /\ \E k \in DOMAIN t : RelativePath(t[k]) = <<"B", "/", "x", ".", "h">>

\* The files of the tree that hold a directive of this text.
FilesWith(t, d) ==
    {RelativePath(t[k]) : k \in {n \in DOMAIN t :
        \E i \in DOMAIN t[n].content : DirectiveText(t[n].content[i]) = DirectiveText(d)}}

\* C7 as claimed: with A/X.h and B/x.h in the tree, '#include "x.h"' is
\* recorded with two candidates.
C7_PlainIncludeHasTwoCandidates ==
    (pc = "loop" /\ BothHeaders(tree0)) =>
        \A path \in FilesWith(tree0, Quoted(Plain)) :
            \E i \in DOMAIN results :
                /\ results[i].path = path
                /\ results[i].value = Plain
                /\ Len(results[i].actual) = 2

\* C7 as amended: with A/X.h and B/x.h in the tree, '#include "x.h"' is not
\* recorded (B/x.h is that name exactly), while '#include "X.H"', which is
\* neither name exactly, is recorded with two candidates, one per inventory
\* entry; when the operator types the number of 'Skip' for it the file is
\* not modified and Skipped grows by 1.
C7_InexactIncludeHasTwoCandidates ==
    [][ (pc = "loop" /\ BothHeaders(tree0)) =>
          /\ \A i \in DOMAIN results : results[i].value # Plain
          /\ \A path \in FilesWith(tree0, Quoted(<<"X", ".", "H">>)) :
                \E i \in DOMAIN results :
                    /\ results[i].path = path
                    /\ results[i].value = <<"X", ".", "H">>
                    /\ results[i].actual = list_all_files(tree0, Plain)
                    /\ Len(CorrectValues(results[i])) = 2
          /\ ( ( /\ FixStep
                 /\ ~ automatic
                 /\ results[pos].value = <<"X", ".", "H">>
                 /\ last'.input = PyStr(Candidates + 1) )
               => /\ tree' = tree
                  /\ writes' = writes
                  /\ s' = s + 1 /\ g' = g /\ e' = e
                  /\ pos' = pos + 1 )
      ]_vars

\* '#include "X.H"' with A/X.h and B/x.h in the tree was skipped with '3'.
C7_Witness ==
    /\ BothHeaders(tree0)
    /\ pc = "loop"
    /\ pos = 2
    /\ results[1].value = <<"X", ".", "H">>
    /\ Len(results[1].actual) = 2
    /\ last.kind = "skip"
    /\ last.input = <<"3">>
    /\ s = 1
    /\ tree = tree0

\* C8: when the operator types the number of 'Skip all - quit program', the
\* process exits with status 0 at that step: no file is written, no summary
\* is printed, the counters stay, the files keep what earlier fixes wrote,
\* and an exited process takes no further step.
C8_QuitExitsAtOnce ==
    [][ /\ pc # "exited"
        /\ ( (FixStep /\ ~ automatic /\ last'.input = PyStr(Candidates + 3))
             => /\ pc' = "exited"
                /\ exit_code' = 0
                /\ tree' = tree
                /\ writes' = writes
                /\ summary' = FALSE
                /\ reads' = reads + 1
                /\ pos' = pos
                /\ s' = s /\ g' = g /\ e' = e )
      ]_vars

\* The operator quit at the second pair after the first was fixed.
C8_Witness ==
    /\ pc = "exited"
    /\ exit_code = 0
    /\ last.kind = "quit"
    /\ pos = 2
    /\ g = 1
    /\ Len(writes) = 1
    /\ tree # tree0
    /\ ~ summary

\* The value with its last segment alone replaced by the actual filename,
\* and every backslash by a slash.
BasenameReplaced(value, actual_filename) ==
    ReplaceBackslashes(
        SubSeq(value, 1, Len(value) - Len(Basename(value))) \o actual_filename)

\* C9: the corrected value of a candidate with an actual filename is the
\* value with only its basename segment replaced and its backslashes made
\* slashes; the directory segments stay, also when they hold the basename's
\* text.
C9_OnlyBasenameReplaced ==
    pc = "loop" =>
        \A i \in DOMAIN results : \A j \in DOMAIN results[i].actual :
            results[i].actual[j].filename # None =>
                CorrectValues(results[i])[j] =
                    BasenameReplaced(results[i].value, results[i].actual[j].filename)

\* C10: the fix of one pair, unless it quits, adds 1 to exactly one of
\* Skipped, Fixed and Errors; the pair's file is written exactly when Fixed
\* is the one, and no other file changes.  At the summary of a run that is
\* not a dry run the three counters add up to the number of pairs.
C10_CountersAccountForEveryPair ==
    [][ /\ ( (FixStep /\ last'.kind # "quit") =>
               /\ pos' = pos + 1
               /\ \/ s' = s + 1 /\ g' = g /\ e' = e
                  \/ s' = s /\ g' = g + 1 /\ e' = e
                  \/ s' = s /\ g' = g /\ e' = e + 1
               /\ (g' = g + 1) <=>
                    (writes' = Append(writes, [pos |-> pos, path |-> results[pos].path]))
               /\ (g' = g) => (writes' = writes /\ tree' = tree)
               /\ (g' = g + 1) => tree' # tree
               /\ \A k \in DOMAIN tree :
                     RelativePath(tree[k]) # results[pos].path => tree'[k] = tree[k] )
        /\ ( (summary' /\ ~ dry_run) => s' + g' + e' = Len(results') )
      ]_vars

\* A run that fixed one pair and could not fix the other came to its summary.
C10_Witness ==
    /\ summary
    /\ ~ dry_run
    /\ Len(results) = 2
    /\ g = 1
    /\ e = 1
    /\ Len(writes) = 1

=============================================================================
